---- MODULE Spec2Model ----
(***************************************************************************)
(* Model of validate_mods.py: the schema URL is pulled out of the raw XML  *)
(* text, rewritten, downloaded, and the document is validated against it.   *)
(*                                                                         *)
(* A Python str is a sequence of one-character strings, so that `in`,      *)
(* split() and replace() are computed character by character, as Python    *)
(* computes them.                                                          *)
(***************************************************************************)
EXTENDS Integers, Sequences, FiniteSets

\* ---------------------------------------------------------------- bounds

\* the longest input file, in lines
MaxLines == 2
\* the most fragments in the <name> of a schema file name
MaxNameFrags == 2
\* the most entries in the error log of one validation
MaxErrors == 2
\* the most fragments in a token handed to the substitutions alone
MaxFrags == 3

\* ------------------------------------------------------- string literals

\* 'xsi:schemaLocation'
SchemaLocationAttr ==
    <<"x","s","i",":","s","c","h","e","m","a","L","o","c","a","t","i","o","n">>
\* 'mods/v3'
ModsV3 ==
    <<"m","o","d","s","/","v","3">>
\* 'xsd'
Xsd ==
    <<"x","s","d">>
\* 'init'
InitUrl ==
    <<"i","n","i","t">>
\* 'http:'
Http ==
    <<"h","t","t","p",":">>
\* 'https:'
Https ==
    <<"h","t","t","p","s",":">>
\* 'www.loc.gov/mods'
LocMods ==
    <<"w","w","w",".","l","o","c",".","g","o","v","/","m","o","d","s">>
\* 'www.loc.gov/standards/mods'
LocStandardsMods ==
    <<"w","w","w",".","l","o","c",".","g","o","v","/","s","t","a","n","d","a","r","d","s",
      "/","m","o","d","s">>
\* '.xsd">'
XsdQuoteGt ==
    <<".","x","s","d","\"",">">>
\* '.xsd'
DotXsd ==
    <<".","x","s","d">>
\* 'xsi:schemaLocation not found in the XML file.'
NotFoundMessage ==
    <<"x","s","i",":","s","c","h","e","m","a","L","o","c","a","t","i","o","n"," ","n","o",
      "t"," ","f","o","u","n","d"," ","i","n"," ","t","h","e"," ","X","M","L"," ","f","i",
      "l","e",".">>
\* 'failed to download XSD file from '
DownloadFailedPrefix ==
    <<"f","a","i","l","e","d"," ","t","o"," ","d","o","w","n","l","o","a","d"," ","X","S",
      "D"," ","f","i","l","e"," ","f","r","o","m"," ">>
\* '. Error: '
DownloadFailedInfix ==
    <<"."," ","E","r","r","o","r",":"," ">>
\* 'Validation failed. Errors:'
ValidationFailedHeader ==
    <<"V","a","l","i","d","a","t","i","o","n"," ","f","a","i","l","e","d","."," ","E","r",
      "r","o","r","s",":">>
\* 'Line '
LinePrefix ==
    <<"L","i","n","e"," ">>
\* ': '
LineInfix ==
    <<":"," ">>

\* ------------------------------------------------------ str operations

\* the characters str.split() treats as separators
Whitespace == {" ", "\t", "\n", "\r"}

\* s[i:].startswith(pat), i counted from 1
StartsWithAt(s, pat, i) ==
    /\ i + Len(pat) - 1 <= Len(s)
    /\ \A j \in 1..Len(pat) : s[i + j - 1] = pat[j]

\* pat in s
Contains(s, pat) == \E i \in 1..(Len(s) + 1) : StartsWithAt(s, pat, i)

\* s.startswith(pat)
StartsWith(s, pat) == StartsWithAt(s, pat, 1)

\* the least member of a non-empty set of integers
Min(S) == CHOOSE i \in S : \A j \in S : i <= j

RECURSIVE ReplaceFrom(_, _, _, _)
\* s[i:].replace(old, new): the occurrences of old, taken left to right
\* and not overlapping, each become new
ReplaceFrom(s, old, new, i) ==
    LET occurrences == {j \in i..Len(s) : StartsWithAt(s, old, j)}
    IN  IF occurrences = {} THEN SubSeq(s, i, Len(s))
        ELSE LET j == Min(occurrences)
             IN  SubSeq(s, i, j - 1) \o new \o ReplaceFrom(s, old, new, j + Len(old))

\* s.replace(old, new), old not empty
Replace(s, old, new) == ReplaceFrom(s, old, new, 1)

\* line.split(): the maximal runs of characters that are not whitespace,
\* from left to right
Split(line) ==
    LET IsText(i) == i \in 1..Len(line) /\ line[i] \notin Whitespace
        starts == {i \in 1..Len(line) : IsText(i) /\ ~IsText(i - 1)}
        ends == {i \in 1..Len(line) : IsText(i) /\ ~IsText(i + 1)}
        Start(k) == CHOOSE i \in starts : Cardinality({j \in starts : j <= i}) = k
    IN  [k \in 1..Cardinality(starts) |->
            SubSeq(line, Start(k), Min({e \in ends : e >= Start(k)}))]

\* one decimal digit
Digit(d) == <<"0", "1", "2", "3", "4", "5", "6", "7", "8", "9">>[d + 1]

RECURSIVE Str(_)
\* str(n) of an integer n >= 0, as an f-string formats it
Str(n) == IF n < 10 THEN <<Digit(n)>> ELSE Str(n \div 10) \o <<Digit(n % 10)>>

\* ------------------------------------------------ get_xsd_url_from_xml

\* 'xsi:schemaLocation' in line
HasSchemaLocation(line) == Contains(line, SchemaLocationAttr)

\* 'mods/v3' in part and 'xsd' in part
IsXsdPart(part) == Contains(part, ModsV3) /\ Contains(part, Xsd)

RECURSIVE ScanPartsFirst(_, _, _)
\* a variant of ScanParts that stops at the first part that matches
ScanPartsFirst(parts, i, url) ==
    IF i > Len(parts) THEN url
    ELSE IF IsXsdPart(parts[i]) THEN parts[i]
         ELSE ScanPartsFirst(parts, i + 1, url)

RECURSIVE ScanParts(_, _, _)
\* the loop over enumerate(parts): every part that matches is assigned to
\* xsd_url, and the loop runs to the end of the line
ScanParts(parts, i, url) ==
    IF i > Len(parts) THEN url
    ELSE ScanParts(parts, i + 1, IF IsXsdPart(parts[i]) THEN parts[i] ELSE url)

\* a variant of NextLine without the break
NextLineNoBreak(found, i, n) == i + 1

\* the line read after line i of n: none (n + 1) once a line with
\* xsi:schemaLocation was met (break), else the one below
NextLine(found, i, n) == IF found THEN n + 1 ELSE i + 1

\* a variant of IsUnset that takes the empty string for the initial value
IsUnsetEmpty(url) == url = <<>>

\* xsd_url == 'init'
IsUnset(url) == url = InitUrl

\* a variant of ToHttps that rewrites the scheme of 'http://www.loc.gov/mods' only
ToHttpsLocOnly(url) ==
    LET old == Http \o <<"/", "/">> \o LocMods
        new == Https \o <<"/", "/">> \o LocMods
    IN  IF Contains(url, old) THEN Replace(url, old, new) ELSE url

\* if 'http:' in xsd_url: xsd_url = xsd_url.replace('http:', 'https:')
ToHttps(url) == IF Contains(url, Http) THEN Replace(url, Http, Https) ELSE url

\* a variant of ToStandards that leaves the legacy path in place
ToStandardsKeepOld(url) == url

\* if 'www.loc.gov/mods' in xsd_url: ... replace(..., 'www.loc.gov/standards/mods')
ToStandards(url) ==
    IF Contains(url, LocMods) THEN Replace(url, LocMods, LocStandardsMods) ELSE url

\* if '.xsd">' in xsd_url: xsd_url = xsd_url.replace('.xsd">', '.xsd')
StripQuoteGt(url) ==
    IF Contains(url, XsdQuoteGt) THEN Replace(url, XsdQuoteGt, DotXsd) ELSE url

\* the else branch of get_xsd_url_from_xml: the three rewrites, in order
Normalize(url) == StripQuoteGt(ToStandards(ToHttps(url)))

RECURSIVE ScanFile(_, _, _)
\* the loop `for line in file` from line i on, xsd_url being url
ScanFile(f, i, url) ==
    IF i > Len(f) THEN url
    ELSE LET found == HasSchemaLocation(f[i])
         IN  ScanFile(f, NextLine(found, i, Len(f)),
                      IF found THEN ScanParts(Split(f[i]), 1, url) ELSE url)

\* get_xsd_url_from_xml on a file of lines f: what it raises or returns
get_xsd_url_from_xml(f) ==
    LET url == ScanFile(f, 1, InitUrl)
    IN  IF IsUnset(url) THEN <<"raise", NotFoundMessage>>
        ELSE <<"return", Normalize(url)>>

\* a variant of DownloadError that leaves the URL out of the message
DownloadErrorNoUrl(url, e) == DownloadFailedPrefix \o DownloadFailedInfix \o e

\* raise Exception( f'failed to download XSD file from {url}. Error: {e}' )
DownloadError(url, e) == DownloadFailedPrefix \o url \o DownloadFailedInfix \o e

\* f'Line {error.line}: {error.message}'
FormatError(error) == LinePrefix \o Str(error.line) \o LineInfix \o error.message

\* a variant of LogLines that reports the error log whatever is_valid is
LogLinesAlways(valid, log) ==
    <<ValidationFailedHeader>> \o [i \in 1..Len(log) |-> FormatError(log[i])]

\* what validate_mods logs at error level: nothing when the document is
\* valid, else the header and then one line per entry of the error log
LogLines(valid, log) ==
    IF valid THEN <<>>
    ELSE <<ValidationFailedHeader>> \o [i \in 1..Len(log) |-> FormatError(log[i])]

\* ------------------------------------------------------------- inputs

\* all sequences over S of length at most n
SeqsUpTo(S, n) == UNION {[1..k -> S] : k \in 0..n}

RECURSIVE Flatten(_)
\* the concatenation of a sequence of strings
Flatten(ss) == IF ss = <<>> THEN <<>> ELSE Head(ss) \o Flatten(Tail(ss))

\* a line with neither the attribute nor a schema file
LinePlain ==
    <<"<","m","o","d","s",":","m","o","d","s"," ","x","m","l","n","s",":","m","o","d","s",
      "=","\"","h","t","t","p",":","/","/","w","w","w",".","l","o","c",".","g","o","v","/",
      "m","o","d","s","/","v","3","\"","\n">>
\* a line that names the schema file, without the attribute
LineComment ==
    <<"<","!","-","-"," ","h","t","t","p",":","/","/","w","w","w",".","l","o","c",".","g",
      "o","v","/","m","o","d","s","/","v","3","/","m","o","d","s","-","3","-","7",".","x",
      "s","d"," ","-","-",">","\n">>
\* the attribute as the docstring of get_xsd_url_from_xml shows it, closing the tag
LineCanonical ==
    <<" "," ","x","s","i",":","s","c","h","e","m","a","L","o","c","a","t","i","o","n","=",
      "\"","h","t","t","p",":","/","/","w","w","w",".","l","o","c",".","g","o","v","/","m",
      "o","d","s","/","v","3"," ","h","t","t","p",":","/","/","w","w","w",".","l","o","c",
      ".","g","o","v","/","m","o","d","s","/","v","3","/","m","o","d","s","-","3","-","7",
      ".","x","s","d","\"",">","\n">>
\* the same attribute, followed by another attribute
LineMoreAttrs ==
    <<"\t","x","s","i",":","s","c","h","e","m","a","L","o","c","a","t","i","o","n","=","\"",
      "h","t","t","p",":","/","/","w","w","w",".","l","o","c",".","g","o","v","/","m","o",
      "d","s","/","v","3"," ","h","t","t","p",":","/","/","w","w","w",".","l","o","c",".",
      "g","o","v","/","m","o","d","s","/","v","3","/","m","o","d","s","-","3","-","7",".",
      "x","s","d","\""," ","v","e","r","s","i","o","n","=","\"","3",".","7","\"",">","\n">>
\* the same attribute in single quotes
LineSingleQuotes ==
    <<"x","s","i",":","s","c","h","e","m","a","L","o","c","a","t","i","o","n","=","'","h",
      "t","t","p",":","/","/","w","w","w",".","l","o","c",".","g","o","v","/","m","o","d",
      "s","/","v","3"," ","h","t","t","p",":","/","/","w","w","w",".","l","o","c",".","g",
      "o","v","/","m","o","d","s","/","v","3","/","m","o","d","s","-","3","-","7",".","x",
      "s","d","'",">","\n">>
\* the attribute, naming another schema than MODS
LineOtherSchema ==
    <<"<","x"," ","x","s","i",":","s","c","h","e","m","a","L","o","c","a","t","i","o","n",
      "=","\"","h","t","t","p",":","/","/","w","w","w",".","w","3",".","o","r","g","/","1",
      "9","9","9","/","x","l","i","n","k"," ","x","l","i","n","k",".","x","s","d","\"",">",
      "\n">>
\* the attribute, naming two MODS schema files
LineTwoSchemas ==
    <<"x","s","i",":","s","c","h","e","m","a","L","o","c","a","t","i","o","n","=","\"","h",
      "t","t","p",":","/","/","w","w","w",".","l","o","c",".","g","o","v","/","m","o","d",
      "s","/","v","3","/","m","o","d","s","-","3","-","4",".","x","s","d"," ","h","t","t",
      "p",":","/","/","w","w","w",".","l","o","c",".","g","o","v","/","m","o","d","s","/",
      "v","3","/","m","o","d","s","-","3","-","7",".","x","s","d","\"",">","\n">>
\* the attribute, holding the schema file alone
LineSingleUrl ==
    <<"<","m","o","d","s"," ","x","s","i",":","s","c","h","e","m","a","L","o","c","a","t",
      "i","o","n","=","\"","h","t","t","p",":","/","/","w","w","w",".","l","o","c",".","g",
      "o","v","/","m","o","d","s","/","v","3","/","m","o","d","s","-","3","-","7",".","x",
      "s","d","\"",">","\n">>

SampleLines ==
    {LinePlain, LineComment, LineCanonical, LineMoreAttrs, LineSingleQuotes,
     LineOtherSchema, LineTwoSchemas, LineSingleUrl}

\* 'http://www.loc.gov/mods/v3/'
LegacyPrefix ==
    <<"h","t","t","p",":","/","/","w","w","w",".","l","o","c",".","g","o","v","/","m","o",
      "d","s","/","v","3","/">>
\* 'https://www.loc.gov/standards/mods/v3/'
StandardsPrefix ==
    <<"h","t","t","p","s",":","/","/","w","w","w",".","l","o","c",".","g","o","v","/","s",
      "t","a","n","d","a","r","d","s","/","m","o","d","s","/","v","3","/">>
\* '<mods:mods xsi:schemaLocation="http://www.loc.gov/mods/v3 '
AttrOpening ==
    <<"<","m","o","d","s",":","m","o","d","s"," ","x","s","i",":","s","c","h","e","m","a",
      "L","o","c","a","t","i","o","n","=","\"","h","t","t","p",":","/","/","w","w","w",".",
      "l","o","c",".","g","o","v","/","m","o","d","s","/","v","3"," ">>
\* 'mods-3-7'
Mods37 ==
    <<"m","o","d","s","-","3","-","7">>

\* the pieces a schema file's <name> is made of
NameFrags == {Mods37, Http, LocMods, XsdQuoteGt, DotXsd, <<"\"">>, <<">">>}

Names == {Flatten(fs) : fs \in SeqsUpTo(NameFrags, MaxNameFrags)}

\* the token 'http://www.loc.gov/mods/v3/<name>.xsd">'
LegacyToken(name) == LegacyPrefix \o name \o XsdQuoteGt

\* the line whose attribute ends in that token
NamedLine(name) == AttrOpening \o LegacyToken(name) \o <<"\n">>

\* the input files: up to MaxLines of the sample lines, or one named line
Files == SeqsUpTo(SampleLines, MaxLines) \cup {<<NamedLine(n)>> : n \in Names}

\* what str(e) of a failed urlopen(), read() or decode() may be
Causes ==
    {
    <<"H","T","T","P"," ","E","r","r","o","r"," ","4","0","4",":"," ","N","o","t"," ","F",
      "o","u","n","d">>,
    <<"<","u","r","l","o","p","e","n"," ","e","r","r","o","r"," ","t","i","m","e","d"," ",
      "o","u","t",">">>
    }

\* the entries xmlschema.error_log may hold
ErrorKinds ==
    {[line |-> 12, message |->
    <<"a","t","t","r","i","b","u","t","e"," ","'","t","y","p","e","'",":"," ","[","f","a",
      "c","e","t"," ","'","e","n","u","m","e","r","a","t","i","o","n","'","]">>],
     [line |-> 7, message |->
    <<"T","h","i","s"," ","e","l","e","m","e","n","t"," ","i","s"," ","n","o","t"," ","e",
      "x","p","e","c","t","e","d",".">>]}

ErrorLogs == SeqsUpTo(ErrorKinds, MaxErrors)

\* lxml's parse failures
SchemaParseError ==
    <<"X","M","L","S","c","h","e","m","a","P","a","r","s","e","E","r","r","o","r">>
XMLSyntaxError ==
    <<"X","M","L","S","y","n","t","a","x","E","r","r","o","r">>

\* the pieces a token handed to the substitutions alone is made of
Frags ==
    {Http, Https, <<"/", "/">>, LocMods, LocStandardsMods, <<"/", "v", "3", "/">>,
     DotXsd, XsdQuoteGt, <<"\"", ">">>}

Tokens == {Flatten(fs) : fs \in SeqsUpTo(Frags, MaxFrags)}

\* --------------------------------------------------------------- state

VARIABLES
    file,       \* the lines of the file at xml_path
    lineno,     \* the line the for loop of get_xsd_url_from_xml reads next
    xsd_url,    \* the local xsd_url
    pc,         \* where validate_mods is
    gets,       \* the calls of urlopen so far
    cause,      \* the exception urlopen, read or decode raised
    raised,     \* the message of the exception that ended the run, or <<>>
    done,       \* the stages of validate_mods that completed
    is_valid,   \* the local is_valid
    error_log,  \* xmlschema.error_log
    logged,     \* the records logged at error level
    result,     \* <<the value returned>>, or <<>>
    token,      \* the token handed to the substitutions alone
    applied,    \* the substitutions applied to it so far, one at a time
    passes,     \* the times all three were applied to it in the code's order
    once        \* xsd_url after the first such pass

vars ==
    <<file, lineno, xsd_url, pc, gets, cause, raised, done, is_valid, error_log,
      logged, result, token, applied, passes, once>>

pipeline ==
    <<file, lineno, pc, gets, cause, raised, done, is_valid, error_log, logged, result>>

rewriting == <<token, applied, passes, once>>

\* validate_mods(xml_path) is entered, the file at xml_path being any of Files
Init ==
    /\ file \in Files
    /\ lineno = 1
    /\ xsd_url = InitUrl
    /\ pc = "scan"
    /\ gets = 0
    /\ cause = <<>>
    /\ raised = <<>>
    /\ done = {}
    /\ is_valid = FALSE
    /\ error_log = <<>>
    /\ logged = <<>>
    /\ result = <<>>
    /\ token = <<>>
    /\ applied = <<>>
    /\ passes = 0
    /\ once = <<>>

\* one round of `for line in file`
ScanLine ==
    /\ pc = "scan"
    /\ lineno <= Len(file)
    /\ LET line == file[lineno]
           found == HasSchemaLocation(line)
       IN  /\ xsd_url' = IF found THEN ScanParts(Split(line), 1, xsd_url) ELSE xsd_url
           /\ lineno' = NextLine(found, lineno, Len(file))
    /\ UNCHANGED <<file, pc, gets, cause, raised, done, is_valid, error_log, logged, result>>
    /\ UNCHANGED rewriting

\* the loop is over and xsd_url is still 'init': get_xsd_url_from_xml raises
RaiseNotFound ==
    /\ pc = "scan"
    /\ lineno > Len(file)
    /\ IsUnset(xsd_url)
    /\ raised' = NotFoundMessage
    /\ pc' = "raised"
    /\ UNCHANGED <<file, lineno, xsd_url, gets, cause, done, is_valid, error_log, logged, result>>
    /\ UNCHANGED rewriting

\* the loop is over and a part was found: get_xsd_url_from_xml rewrites and
\* returns it
ReturnXsdUrl ==
    /\ pc = "scan"
    /\ lineno > Len(file)
    /\ ~IsUnset(xsd_url)
    /\ xsd_url' = Normalize(xsd_url)
    /\ done' = done \cup {"extract"}
    /\ pc' = "download"
    /\ UNCHANGED <<file, lineno, gets, cause, raised, is_valid, error_log, logged, result>>
    /\ UNCHANGED rewriting

\* download_xsd_to_string(xsd_url) returns the body
DownloadOk ==
    /\ pc = "download"
    /\ gets' = gets + 1
    /\ done' = done \cup {"download"}
    /\ pc' = "schema"
    /\ UNCHANGED <<file, lineno, xsd_url, cause, raised, is_valid, error_log, logged, result>>
    /\ UNCHANGED rewriting

\* urlopen, read or decode raises: download_xsd_to_string wraps and raises
DownloadFail ==
    /\ pc = "download"
    /\ gets' = gets + 1
    /\ \E e \in Causes :
        /\ cause' = e
        /\ raised' = DownloadError(xsd_url, e)
    /\ pc' = "raised"
    /\ UNCHANGED <<file, lineno, xsd_url, done, is_valid, error_log, logged, result>>
    /\ UNCHANGED rewriting

\* etree.fromstring and etree.XMLSchema succeed
SchemaParseOk ==
    /\ pc = "schema"
    /\ done' = done \cup {"schema"}
    /\ pc' = "doc"
    /\ UNCHANGED <<file, lineno, xsd_url, gets, cause, raised, is_valid, error_log, logged, result>>
    /\ UNCHANGED rewriting

\* etree.fromstring or etree.XMLSchema raises
SchemaParseFail ==
    /\ pc = "schema"
    /\ raised' \in {XMLSyntaxError, SchemaParseError}
    /\ pc' = "raised"
    /\ UNCHANGED <<file, lineno, xsd_url, gets, cause, done, is_valid, error_log, logged, result>>
    /\ UNCHANGED rewriting

\* etree.parse(xml_path) succeeds
DocParseOk ==
    /\ pc = "doc"
    /\ done' = done \cup {"doc"}
    /\ pc' = "validate"
    /\ UNCHANGED <<file, lineno, xsd_url, gets, cause, raised, is_valid, error_log, logged, result>>
    /\ UNCHANGED rewriting

\* etree.parse(xml_path) raises
DocParseFail ==
    /\ pc = "doc"
    /\ raised' = XMLSyntaxError
    /\ pc' = "raised"
    /\ UNCHANGED <<file, lineno, xsd_url, gets, cause, done, is_valid, error_log, logged, result>>
    /\ UNCHANGED rewriting

\* xmlschema.validate(mods_doc): the document conforms or it does not, and
\* a document that does not leaves at least one entry in the error log
Validate ==
    /\ pc = "validate"
    /\ \E v \in BOOLEAN, log \in ErrorLogs :
        /\ ~v => log # <<>>
        /\ is_valid' = v
        /\ error_log' = log
    /\ done' = done \cup {"validate"}
    /\ pc' = "report"
    /\ UNCHANGED <<file, lineno, xsd_url, gets, cause, raised, logged, result>>
    /\ UNCHANGED rewriting

\* the errors are logged and is_valid is returned
Report ==
    /\ pc = "report"
    /\ logged' = LogLines(is_valid, error_log)
    /\ result' = <<is_valid>>
    /\ pc' = "returned"
    /\ UNCHANGED <<file, lineno, xsd_url, gets, cause, raised, done, is_valid, error_log>>
    /\ UNCHANGED rewriting

Next ==
    \/ ScanLine
    \/ RaiseNotFound
    \/ ReturnXsdUrl
    \/ DownloadOk
    \/ DownloadFail
    \/ SchemaParseOk
    \/ SchemaParseFail
    \/ DocParseOk
    \/ DocParseFail
    \/ Validate
    \/ Report

Spec == Init /\ [][Next]_vars

\* ------------------------------------- the substitutions on their own

\* a token is handed to the else branch of get_xsd_url_from_xml
RewriteInit ==
    /\ token \in Tokens
    /\ xsd_url = token
    /\ applied = <<>>
    /\ passes = 0
    /\ once = <<>>
    /\ file = <<>>
    /\ lineno = 1
    /\ pc = "rewrite"
    /\ gets = 0
    /\ cause = <<>>
    /\ raised = <<>>
    /\ done = {}
    /\ is_valid = FALSE
    /\ error_log = <<>>
    /\ logged = <<>>
    /\ result = <<>>

Range(s) == {s[i] : i \in 1..Len(s)}

\* the first substitution alone, when not yet applied
ApplyToHttps ==
    /\ passes = 0
    /\ "https" \notin Range(applied)
    /\ xsd_url' = ToHttps(xsd_url)
    /\ applied' = Append(applied, "https")
    /\ UNCHANGED <<token, passes, once>>
    /\ UNCHANGED pipeline

\* the second substitution alone, when not yet applied
ApplyToStandards ==
    /\ passes = 0
    /\ "standards" \notin Range(applied)
    /\ xsd_url' = ToStandards(xsd_url)
    /\ applied' = Append(applied, "standards")
    /\ UNCHANGED <<token, passes, once>>
    /\ UNCHANGED pipeline

\* the third substitution alone, when not yet applied
ApplyStripQuoteGt ==
    /\ passes = 0
    /\ "strip" \notin Range(applied)
    /\ xsd_url' = StripQuoteGt(xsd_url)
    /\ applied' = Append(applied, "strip")
    /\ UNCHANGED <<token, passes, once>>
    /\ UNCHANGED pipeline

\* all three in the code's order, a first and then a second time
ApplyNormalize ==
    /\ applied = <<>>
    /\ passes < 2
    /\ xsd_url' = Normalize(xsd_url)
    /\ passes' = passes + 1
    /\ once' = IF passes = 0 THEN xsd_url' ELSE once
    /\ UNCHANGED <<token, applied>>
    /\ UNCHANGED pipeline

RewriteNext ==
    \/ ApplyToHttps
    \/ ApplyToStandards
    \/ ApplyStripQuoteGt
    \/ ApplyNormalize

RewriteSpec == RewriteInit /\ [][RewriteNext]_vars

\* ------------------------------------------------------------- claims

\* the first line of f that contains xsi:schemaLocation, 0 when none does
FirstSchemaLine(f) ==
    LET hits == {i \in 1..Len(f) : HasSchemaLocation(f[i])}
    IN  IF hits = {} THEN 0 ELSE Min(hits)

\* the whitespace-separated tokens of a line that contain mods/v3 and xsd
XsdParts(line) == SelectSeq(Split(line), IsXsdPart)

\* the same, of the first line of the input file that contains xsi:schemaLocation
FirstLineXsdParts ==
    IF FirstSchemaLine(file) = 0 THEN <<>> ELSE XsdParts(file[FirstSchemaLine(file)])

\* get_xsd_url_from_xml has just returned xsd_url
Returned == pc = "download"

\* get_xsd_url_from_xml has just ended
Extracted == Returned \/ raised = NotFoundMessage

\* how it ended on the input file
Outcome ==
    IF raised = NotFoundMessage THEN <<"raise", raised>> ELSE <<"return", xsd_url>>

\* the characters of XML syntax
XmlSyntaxChars == {"\"", "'", "<", ">", "="}

\* C1: when no line of the file contains xsi:schemaLocation, or the first line
\* that does has no token containing both mods/v3 and xsd, the run can only end
\* in the 'xsi:schemaLocation not found' error: urlopen is never called, no
\* stage of validate_mods completes, and nothing is logged or returned.
C1_NotFoundAborts ==
    (pc # "scan" /\ FirstLineXsdParts = <<>>) =>
        /\ pc = "raised"
        /\ raised = NotFoundMessage
        /\ gets = 0
        /\ done = {}
        /\ logged = <<>>
        /\ result = <<>>

\* a file whose first xsi:schemaLocation line has no matching token has failed
C1_Witness ==
    /\ FirstSchemaLine(file) > 0
    /\ FirstLineXsdParts = <<>>
    /\ pc = "raised"
    /\ raised = NotFoundMessage

\* C2: when the download fails, the run has ended in an error whose message
\* contains the URL that was fetched and the underlying cause, urlopen was
\* called exactly once, and no schema parse, document parse or validation
\* took place and nothing was returned.
C2_DownloadFailureIsWrapped ==
    cause # <<>> =>
        /\ pc = "raised"
        /\ Contains(raised, xsd_url)
        /\ Contains(raised, cause)
        /\ gets = 1
        /\ done = {"extract"}
        /\ logged = <<>>
        /\ result = <<>>

\* a download has failed
C2_Witness == cause # <<>> /\ pc = "raised" /\ gets = 1

\* C3: once validate_mods has returned, the value returned is is_valid; a
\* valid document logged no error record; an invalid one logged the header
\* 'Validation failed. Errors:' and then 'Line N: message' for each entry of
\* the error log, in its order; so error records exist iff False was returned.
C3_ValidationIsReportedNotRaised ==
    pc = "returned" =>
        /\ raised = <<>>
        /\ result = <<is_valid>>
        /\ is_valid => logged = <<>>
        /\ ~is_valid =>
            /\ Len(logged) = Len(error_log) + 1
            /\ logged[1] = ValidationFailedHeader
            /\ \A i \in 1..Len(error_log) :
                logged[i + 1] =
                    LinePrefix \o Str(error_log[i].line) \o LineInfix \o error_log[i].message
        /\ logged # <<>> <=> result = <<FALSE>>

\* an invalid document with two different errors was reported
C3_Witness ==
    /\ pc = "returned"
    /\ result = <<FALSE>>
    /\ Len(error_log) = 2
    /\ error_log[1] # error_log[2]

\* t is 'http://www.loc.gov/mods/v3/<name>.xsd">' for some <name>
IsLegacyToken(t) ==
    /\ Len(t) >= Len(LegacyPrefix) + Len(XsdQuoteGt)
    /\ StartsWith(t, LegacyPrefix)
    /\ StartsWithAt(t, XsdQuoteGt, Len(t) - Len(XsdQuoteGt) + 1)

\* that <name>
NameOf(t) == SubSeq(t, Len(LegacyPrefix) + 1, Len(t) - Len(XsdQuoteGt))

\* C4 as stated: when the only matching token of the first xsi:schemaLocation
\* line is 'http://www.loc.gov/mods/v3/<name>.xsd">', the URL returned is
\* 'https://www.loc.gov/standards/mods/v3/<name>.xsd', whatever <name> is.
C4_AnyNameIsKept ==
    Returned =>
        LET ps == FirstLineXsdParts
        IN  (Len(ps) = 1 /\ IsLegacyToken(ps[1])) =>
                xsd_url = StandardsPrefix \o NameOf(ps[1]) \o DotXsd

\* <name> contains none of the three substrings the rewrites look for
TriggerFree(n) ==
    ~Contains(n, Http) /\ ~Contains(n, LocMods) /\ ~Contains(n, XsdQuoteGt)

\* C4 as amended: the same, for every <name> that contains none of 'http:',
\* 'www.loc.gov/mods' and '.xsd">'.
C4_TriggerFreeNameIsKept ==
    Returned =>
        LET ps == FirstLineXsdParts
        IN  (Len(ps) = 1 /\ IsLegacyToken(ps[1]) /\ TriggerFree(NameOf(ps[1]))) =>
                xsd_url = StandardsPrefix \o NameOf(ps[1]) \o DotXsd

\* the example of the specification: <name> is mods-3-7
C4_Witness ==
    /\ Returned
    /\ FirstLineXsdParts = <<LegacyToken(Mods37)>>
    /\ xsd_url = StandardsPrefix \o Mods37 \o DotXsd

\* C5: applying the three rewrites a second time changes nothing,
\* N(N(t)) = N(t) for every token t.
C5_NormalizeIsIdempotent == passes = 2 => xsd_url = once

\* C6: the URL get_xsd_url_from_xml returns holds no double quote, single
\* quote, <, > or =, and not the attribute name xsi:schemaLocation.
C6_NoResidualXmlSyntax ==
    Returned =>
        /\ \A i \in 1..Len(xsd_url) : xsd_url[i] \notin XmlSyntaxChars
        /\ ~Contains(xsd_url, SchemaLocationAttr)

\* C7: whenever download_xsd_to_string has been called, its url begins with
\* 'https://' and contains no 'http:'.
C7_DownloadUrlIsHttps ==
    gets > 0 =>
        /\ StartsWith(xsd_url, Https \o <<"/", "/">>)
        /\ ~Contains(xsd_url, Http)

\* C8: get_xsd_url_from_xml ends on the input file as it ends on every file
\* that has the same lines up to and including the first line containing
\* xsi:schemaLocation; and when that line has no matching token it ends in
\* the not-found error, whatever the lines below it hold.
C8_OnlyFirstSchemaLineCounts ==
    (Extracted /\ FirstSchemaLine(file) > 0) =>
        /\ \A rest \in SeqsUpTo(SampleLines, 1) :
            get_xsd_url_from_xml(SubSeq(file, 1, FirstSchemaLine(file)) \o rest) = Outcome
        /\ FirstLineXsdParts = <<>> => raised = NotFoundMessage

\* the not-found error, with a matching xsi:schemaLocation line below the first
C8_Witness ==
    /\ raised = NotFoundMessage
    /\ FirstSchemaLine(file) > 0
    /\ \E i \in (FirstSchemaLine(file) + 1)..Len(file) :
        HasSchemaLocation(file[i]) /\ XsdParts(file[i]) # <<>>

\* C9: the three rewrites, each applied once in any of the six orders, give
\* what the order of the code gives.
C9_RewritesCommute == Len(applied) = 3 => xsd_url = Normalize(token)

\* a token that all three rewrites change, rewritten in the reverse order
C9_Witness ==
    /\ applied = <<"strip", "standards", "https">>
    /\ Contains(token, Http)
    /\ Contains(token, LocMods)
    /\ Contains(token, XsdQuoteGt)

\* C10: the URL returned is the rewrite of the last token of the first
\* xsi:schemaLocation line that contains both mods/v3 and xsd, be there one
\* such token or several.
C10_LastMatchingPartWins ==
    Returned =>
        LET ps == FirstLineXsdParts
        IN  ps # <<>> => xsd_url = Normalize(ps[Len(ps)])

\* two tokens match, and the first of them would have given another URL
C10_Witness ==
    /\ Returned
    /\ Len(FirstLineXsdParts) = 2
    /\ xsd_url = Normalize(FirstLineXsdParts[2])
    /\ xsd_url # Normalize(FirstLineXsdParts[1])

====
